---------------------------- MODULE Spec2Model ----------------------------
(***************************************************************************)
(* Model of the Go+ document-highlight engine of gopls/goxls:              *)
(*   gopls/internal/lsp/source/highlight_gox.go                            *)
(*                                                                         *)
(* A request is GopHighlight(position) against one parsed file and its     *)
(* type information.  The syntax tree is a heap of nodes (node id = Go     *)
(* pointer, 0 = nil); a highlight result is a set of <<start, end>>        *)
(* half-open offset ranges (Go: map[posRange]struct{}).                    *)
(***************************************************************************)
EXTENDS Integers, Sequences, FiniteSets, TLC

(***************************************************************************)
(* Bounds of the model.                                                    *)
(***************************************************************************)
\* deepest nest of loop/switch/select constructs in the generated files
MaxNest == 2
\* how far past end-of-file a requested offset may lie
MaxPastEOF == 2

(***************************************************************************)
(* Program constants: the keyword lengths the code adds to a start offset. *)
(***************************************************************************)
LenFunc == 4
LenFor == 3
LenSwitch == 6

(***************************************************************************)
(* types.Object: an opaque comparable identity; Nil is the nil interface.  *)
(***************************************************************************)
Nil == [id |-> 0, cls |-> "nil"]
Obj(i, cls) == [id |-> i, cls |-> cls]

(***************************************************************************)
(* Unpositioned syntax (what the parser is given, token by token).  A term *)
(* is a node kind and its parts in source order: literal token text, or a  *)
(* child term in a named field of the node (role) at a 0-based index.      *)
(* tbl/obj say in which table of types.Info the checker records the node   *)
(* and with which object ("" = the node has no entry).                     *)
(***************************************************************************)
Tk(s) == [tok |-> s]
Kid(role, idx, t) == [role |-> role, idx |-> idx, t |-> t]
IsTk(part) == "tok" \in DOMAIN part

Term(kind, parts) ==
  [kind |-> kind, Name |-> "", Tok |-> "", tbl |-> "", obj |-> Nil, parts |-> parts]

\* terms[1] sep terms[2] sep ... as children role[0], role[1], ...
Join(role, terms, sep) ==
  [i \in 1..(IF Len(terms) = 0 THEN 0 ELSE 2 * Len(terms) - 1) |->
     IF i % 2 = 1 THEN Kid(role, (i - 1) \div 2, terms[(i + 1) \div 2]) ELSE Tk(sep)]

Ident(name) == [Term("Ident", <<Tk(name)>>) EXCEPT !.Name = name]
IdentDef(name, o) == [Ident(name) EXCEPT !.tbl = "Defs", !.obj = o]
IdentUse(name, o) == [Ident(name) EXCEPT !.tbl = "Uses", !.obj = o]
BasicLit(text) == Term("BasicLit", <<Tk(text)>>)
BlockStmt(stmts) ==
  IF Len(stmts) = 0 THEN Term("BlockStmt", <<Tk("{}")>>)
  ELSE Term("BlockStmt", <<Tk("{ ")>> \o Join("List", stmts, "; ") \o <<Tk(" }")>>)
ExprStmt(x) == Term("ExprStmt", <<Kid("X", 0, x)>>)
AssignStmt(lhs, op, rhs) ==
  Term("AssignStmt", <<Kid("Lhs", 0, lhs), Tk(" " \o op \o " "), Kid("Rhs", 0, rhs)>>)
BinaryExpr(x, op, y) ==
  Term("BinaryExpr", <<Kid("X", 0, x), Tk(" " \o op \o " "), Kid("Y", 0, y)>>)
CallExpr(fun, args) ==
  Term("CallExpr", <<Kid("Fun", 0, fun), Tk("(")>> \o Join("Args", args, ", ") \o <<Tk(")")>>)
SelectorExpr(x, sel) ==
  Term("SelectorExpr", <<Kid("X", 0, x), Tk("."), Kid("Sel", 0, sel)>>)
KeyValueExpr(k, v) ==
  Term("KeyValueExpr", <<Kid("Key", 0, k), Tk(": "), Kid("Value", 0, v)>>)
CompositeLit(type, elts) ==
  Term("CompositeLit", <<Kid("Type", 0, type), Tk("{")>> \o Join("Elts", elts, ", ") \o <<Tk("}")>>)
IfStmt(cond, body) ==
  Term("IfStmt", <<Tk("if "), Kid("Cond", 0, cond), Tk(" "), Kid("Body", 0, body)>>)
ForStmt(body) == Term("ForStmt", <<Tk("for "), Kid("Body", 0, body)>>)
RangeStmt(x, body) ==
  Term("RangeStmt", <<Tk("for range "), Kid("X", 0, x), Tk(" "), Kid("Body", 0, body)>>)
CaseClause(x, stmts) ==
  Term("CaseClause", <<Tk("case "), Kid("List", 0, x), Tk(": ")>> \o Join("Body", stmts, "; "))
SwitchStmt(clauses) ==
  Term("SwitchStmt", <<Tk("switch "), Kid("Body", 0, BlockStmt(clauses))>>)
CommClause(stmts) ==
  Term("CommClause", <<Tk("default: ")>> \o Join("Body", stmts, "; "))
SelectStmt(clauses) ==
  Term("SelectStmt", <<Tk("select "), Kid("Body", 0, BlockStmt(clauses))>>)
LabeledStmt(label, stmt) ==
  Term("LabeledStmt", <<Kid("Label", 0, label), Tk(": "), Kid("Stmt", 0, stmt)>>)
BranchStmt(tok) == [Term("BranchStmt", <<Tk(tok)>>) EXCEPT !.Tok = tok]
BranchStmtL(tok, label) ==
  [Term("BranchStmt", <<Tk(tok \o " "), Kid("Label", 0, label)>>) EXCEPT !.Tok = tok]
ReturnStmt(results) ==
  IF Len(results) = 0 THEN Term("ReturnStmt", <<Tk("return")>>)
  ELSE Term("ReturnStmt", <<Tk("return ")>> \o Join("Results", results, ", "))
\* a result field: names (possibly none) and a type
Field(names, type) ==
  IF Len(names) = 0 THEN Term("Field", <<Kid("Type", 0, type)>>)
  ELSE Term("Field", Join("Names", names, ", ") \o <<Tk(" "), Kid("Type", 0, type)>>)
\* a parenthesized result list, or a single unnamed result type
FieldList(fields, paren) ==
  IF paren THEN Term("FieldList", <<Tk("(")>> \o Join("List", fields, ", ") \o <<Tk(")")>>)
  ELSE Term("FieldList", Join("List", fields, ", "))
\* results = <<>> (no result list) or <<fieldList>>
FuncType(results) ==
  IF Len(results) = 0 THEN Term("FuncType", <<Tk("func()")>>)
  ELSE Term("FuncType", <<Tk("func() "), Kid("Results", 0, results[1])>>)
FuncLit(results, body) ==
  Term("FuncLit", <<Kid("Type", 0, FuncType(results)), Tk(" "), Kid("Body", 0, body)>>)
\* FuncDecl.Type is inlined (Type.Func is the decl's own start, Type.Results its
\* Results field): the enclosing path of an offset never holds a decl's FuncType.
FuncDecl(name, results, body) ==
  IF Len(results) = 0
  THEN Term("FuncDecl", <<Tk("func "), Kid("Name", 0, name), Tk("() "), Kid("Body", 0, body)>>)
  ELSE Term("FuncDecl", <<Tk("func "), Kid("Name", 0, name), Tk("() "),
                          Kid("Results", 0, results[1]), Tk(" "), Kid("Body", 0, body)>>)
\* import "path" (the package name object is implicit) / import name "path"
ImportSpec(path, o) ==
  [Term("ImportSpec", <<Kid("Path", 0, BasicLit(path))>>) EXCEPT !.tbl = "Implicits", !.obj = o]
ImportSpecNamed(name, path) ==
  Term("ImportSpec", <<Kid("Name", 0, name), Tk(" "), Kid("Path", 0, BasicLit(path))>>)
ImportDecl(spec) == Term("GenDecl", <<Tk("import "), Kid("Specs", 0, spec)>>)
VarDecl(name, value) ==
  Term("GenDecl", <<Tk("var "), Kid("Specs", 0,
     Term("ValueSpec", <<Kid("Names", 0, name), Tk(" = "), Kid("Values", 0, value)>>))>>)
File(decls) ==
  Term("File", <<Tk("package "), Kid("Name", 0, Ident("main")), Tk("\n\n")>>
               \o Join("Decls", decls, "\n\n") \o <<Tk("\n")>>)

(***************************************************************************)
(* The parser's output for a term laid out from offset p: the nodes of the *)
(* subtree in preorder (a node before its descendants, so the innermost of *)
(* the nodes that hold an offset has the largest id), the root first with  *)
(* node id `id`.  up is the chain of ancestors of the node, parent first;  *)
(* last is the id of the last node of its subtree.                         *)
(***************************************************************************)
RECURSIVE LayNode(_, _, _, _, _, _)
RECURSIVE LayParts(_, _, _, _, _)
LayParts(parts, k, p, nextId, up) ==
  IF k > Len(parts) THEN [nodes |-> <<>>, end |-> p]
  ELSE IF IsTk(parts[k]) THEN LayParts(parts, k + 1, p + Len(parts[k].tok), nextId, up)
  ELSE LET sub == LayNode(parts[k].t, p, nextId, up, parts[k].role, parts[k].idx)
           rest == LayParts(parts, k + 1, sub[1].end, nextId + Len(sub), up)
       IN  [nodes |-> sub \o rest.nodes, end |-> rest.end]

LayNode(t, p, id, up, role, idx) ==
  LET below == LayParts(t.parts, 1, p, id + 1, <<id>> \o up)
  IN  <<[kind |-> t.kind, Name |-> t.Name, Tok |-> t.Tok, pos |-> p, end |-> below.end,
         up |-> up, last |-> id + Len(below.nodes), role |-> role, idx |-> idx,
         tbl |-> t.tbl, obj |-> t.obj]>>
      \o below.nodes

RECURSIVE TextOf(_, _)
TextOf(parts, k) ==
  IF k > Len(parts) THEN ""
  ELSE (IF IsTk(parts[k]) THEN parts[k].tok ELSE TextOf(parts[k].t.parts, 1))
       \o TextOf(parts, k + 1)


(***************************************************************************)
(* State of one request.                                                   *)
(*   content    the file's text                                            *)
(*   size       its length in bytes                                        *)
(*   tree       pgf.File: the heap of syntax nodes, node 1 the *ast.File   *)
(*   typesInfo  pkg.GopTypesInfo(): Defs, Uses (ident -> object) and       *)
(*              Implicits (node -> object); absent key = nil object        *)
(*   position   the requested offset (-1 before the request)               *)
(*   ranges     the returned ranges, as a set                              *)
(*   err        "nil" or the error returned                                *)
(*   pc         "ready" before the request, "done" after it                *)
(***************************************************************************)
VARIABLES content, size, tree, typesInfo, position, ranges, err, pc
vars == <<content, size, tree, typesInfo, position, ranges, err, pc>>

(***************************************************************************)
(* Node accessors (ast.Node methods and struct fields).                    *)
(***************************************************************************)
Nodes == DOMAIN tree
Kind(n) == tree[n].kind
Pos(n) == tree[n].pos
End(n) == tree[n].end
\* posRange{start: n.Pos(), end: n.End()}
Rng(n) == <<tree[n].pos, tree[n].end>>
ParentOf(n) == IF tree[n].up = <<>> THEN 0 ELSE tree[n].up[1]
\* the slice field `role` of node n, in order
FieldOf(n, role) ==
  LET S == {c \in (n + 1)..tree[n].last : tree[c].up[1] = n /\ tree[c].role = role}
  IN  [i \in 1..Cardinality(S) |-> CHOOSE c \in S : tree[c].idx = i - 1]
\* the pointer field `role` of node n (0 = nil)
First(s) == IF s = <<>> THEN 0 ELSE s[1]
One(n, role) == First(FieldOf(n, role))
SeqToSet(s) == {s[i] : i \in DOMAIN s}
\* node.Type.Results of a FuncDecl or FuncLit
TypeResults(fn) == One(IF Kind(fn) = "FuncDecl" THEN fn ELSE One(fn, "Type"), "Results")
\* m[k] of a Go map: the zero value (nil) for an absent key, also for the nil key
Lookup(m, k) == IF k \in DOMAIN m THEN m[k] ELSE Nil

\* n lies in the subtree of root
InSubtree(n, root) == root <= n /\ n <= tree[root].last
(***************************************************************************)
(* ast.Inspect(root, f): the nodes f is called on.  f(n) = FALSE prunes    *)
(* the children of n, so n is visited iff f returned TRUE on each of its   *)
(* ancestors inside the subtree.  stop is the set of nodes of the subtree  *)
(* on which f returns FALSE; a callback that always returns TRUE visits    *)
(* Subtree(root).                                                          *)
(***************************************************************************)
Subtree(root) == root..tree[root].last
Inspect(root, stop) ==
  {n \in Subtree(root) :
     \A j \in DOMAIN tree[n].up : tree[n].up[j] >= root => tree[n].up[j] \notin stop}

(***************************************************************************)
(* astutil.PathEnclosingInterval(file, start, start): the chain of nodes   *)
(* whose extent contains the one unit following start, innermost first,    *)
(* ending at the file root; empty when start is outside the file.          *)
(***************************************************************************)
PathEnclosingInterval(file, start) ==
  IF start < 0 \/ start > size THEN <<>>
  ELSE LET C == {n \in Nodes : Pos(n) <= start /\ start + 1 <= End(n)}
       IN  IF C = {} THEN <<file>>
           ELSE LET inner == CHOOSE n \in C : \A m \in C : m <= n
                IN  <<inner>> \o tree[inner].up

\* typesutil.Info.ObjectOf: the object an identifier defines or uses
ObjectOf(info, id) ==
  IF Lookup(info.Defs, id) # Nil THEN Lookup(info.Defs, id) ELSE Lookup(info.Uses, id)

\* nodeAtPos(nodes, pos): the 0-based index of the first node holding pos, or -1
nodeAtPos(nodes, pos) ==
  LET I == {i \in DOMAIN nodes : Pos(nodes[i]) <= pos /\ pos <= End(nodes[i])}
  IN  IF I = {} THEN -1 ELSE (CHOOSE i \in I : \A j \in I : i <= j) - 1

(***************************************************************************)
(* GopImportedPkgName(info, imp): the PkgName object an ImportSpec         *)
(* declares, and whether there is one.                                     *)
(***************************************************************************)
GopImportedPkgName(info, imp) ==
  LET o == IF One(imp, "Name") # 0 THEN Lookup(info.Defs, One(imp, "Name"))
           ELSE Lookup(info.Implicits, imp)
  IN  IF o.cls = "PkgName" THEN [pkgname |-> o, ok |-> TRUE] ELSE [pkgname |-> Nil, ok |-> FALSE]

(***************************************************************************)
(* gopHighlightFuncControlFlow                                             *)
(***************************************************************************)
\* The reverse walk of the path up to the func block (lines 141-173), from
\* path[i] on.  st.stop: the walk returned from the function.
RECURSIVE FuncWalk(_, _, _)
FuncWalk(path, i, st) ==
  IF i > Len(path) THEN st
  ELSE LET n == path[i] IN
    CASE Kind(n) = "KeyValueExpr" -> [st EXCEPT !.stop = TRUE]
      [] Kind(n) = "CallExpr" ->
           IF i > 1 /\ path[i - 1] \in SeqToSet(FieldOf(n, "Args"))
           THEN [st EXCEPT !.stop = TRUE]
           ELSE FuncWalk(path, i + 1, st)
      [] Kind(n) = "Field" -> FuncWalk(path, i + 1, [st EXCEPT !.inReturnList = TRUE])
      [] Kind(n) \in {"FuncLit", "FuncDecl"} ->
           [st EXCEPT !.enclosingFunc = n, !.resultsList = TypeResults(n)]
      [] Kind(n) = "ReturnStmt" ->
           FuncWalk(path, i + 1,
                    [st EXCEPT !.returnStmt = n,
                               !.inReturnList = st.inReturnList \/ path[1] # n])
      [] OTHER -> FuncWalk(path, i + 1, st)

\* The callback of ast.Inspect(enclosingFunc, ...) (lines 221-244): whether the
\* traversal goes below n.
\* (variant: the traversal also enters nested functions)
FuncDescendNested(enclosingFunc, n) ==
  CASE Kind(n) \in {"FuncDecl", "FuncLit"} -> TRUE
    [] Kind(n) = "ReturnStmt" -> FALSE
    [] OTHER -> TRUE
\* the callback as written
FuncDescend(enclosingFunc, n) ==
  CASE Kind(n) \in {"FuncDecl", "FuncLit"} -> enclosingFunc = n
    [] Kind(n) = "ReturnStmt" -> FALSE
    [] OTHER -> TRUE

\* toAdd for the return statement ret (lines 231-242): 0 = nil
\* (variant: the whole statement whenever something is added)
ReturnToAddWhole(ret, highlightAllReturnsAndFunc, index) ==
  IF highlightAllReturnsAndFunc \/ (-1 < index /\ index < Len(FieldOf(ret, "Results")))
  THEN ret ELSE 0
\* as written: the result at index wins over the whole statement
ReturnToAdd(ret, highlightAllReturnsAndFunc, index) ==
  IF -1 < index /\ index < Len(FieldOf(ret, "Results")) THEN FieldOf(ret, "Results")[index + 1]
  ELSE IF highlightAllReturnsAndFunc THEN ret
  ELSE 0

\* nodeAtPos over the results of the return statement, else over the fields of
\* the result list (lines 193-203)
FuncResultIndex(path, returnStmt, resultsList) ==
  nodeAtPos(IF returnStmt # 0 THEN FieldOf(returnStmt, "Results")
            ELSE IF resultsList # 0 THEN FieldOf(resultsList, "List")
            ELSE <<>>,
            Pos(path[1]))

\* lines 205-244: the result field at index, the func keyword, the exits
FuncHighlights(enclosingFunc, resultsList, highlightAllReturnsAndFunc, index, result) ==
  LET field == IF resultsList # 0 /\ -1 < index /\ index < Len(FieldOf(resultsList, "List"))
               THEN {Rng(FieldOf(resultsList, "List")[index + 1])} ELSE {}
      func == IF highlightAllReturnsAndFunc
              THEN {<<Pos(enclosingFunc), Pos(enclosingFunc) + LenFunc>>} ELSE {}
      stop == {n \in Subtree(enclosingFunc) : ~FuncDescend(enclosingFunc, n)}
      rets == {n \in Inspect(enclosingFunc, stop) : Kind(n) = "ReturnStmt"}
      exits == {Rng(a) : a \in {ReturnToAdd(r, highlightAllReturnsAndFunc, index) : r \in rets}
                                \ {0}}
  IN  result \cup field \cup func \cup exits

\* lines 174-203, after the walk w
FuncFlow(path, w, result) ==
  IF w.stop THEN result
  ELSE IF w.enclosingFunc = 0 THEN result
  ELSE IF /\ Kind(path[1]) \in {"Ident", "BasicLit"}
          /\ w.returnStmt = 0 /\ ~w.inReturnList THEN result
  ELSE FuncHighlights(w.enclosingFunc, w.resultsList,
                      \/ path[1] = w.returnStmt
                      \/ path[1] = w.enclosingFunc
                      \/ Kind(path[1]) = "FuncType",
                      FuncResultIndex(path, w.returnStmt, w.resultsList),
                      result)

gopHighlightFuncControlFlow(path, result) ==
  FuncFlow(path,
           FuncWalk(path, 1, [enclosingFunc |-> 0, returnStmt |-> 0, resultsList |-> 0,
                              inReturnList |-> FALSE, stop |-> FALSE]),
           result)

(***************************************************************************)
(* gopLabelFor(path): the label of the labeled statement path[0] is the    *)
(* body of, or nil.                                                        *)
(***************************************************************************)
gopLabelFor(path) ==
  IF Len(path) > 1 /\ Kind(path[2]) = "LabeledStmt" THEN One(path[2], "Label") ELSE 0

\* b.Label of a branch statement (0 = nil)
LabelOf(b) == One(b, "Label")

(***************************************************************************)
(* gopHighlightLoopControlFlow                                             *)
(***************************************************************************)
\* The reverse walk to the loop (lines 298-310) from path[i] on; loopLabel is
\* the label of the last loop the walk looked at.
RECURSIVE LoopWalk(_, _, _, _)
LoopWalk(path, i, stmtLabel, loopLabel) ==
  IF i > Len(path) THEN [loop |-> 0, loopLabel |-> loopLabel]
  ELSE IF Kind(path[i]) \in {"ForStmt", "RangeStmt"}
       THEN LET l == gopLabelFor(SubSeq(path, i, Len(path)))
            IN  IF stmtLabel = 0 \/ l = stmtLabel THEN [loop |-> path[i], loopLabel |-> l]
                ELSE LoopWalk(path, i + 1, stmtLabel, l)
       ELSE LoopWalk(path, i + 1, stmtLabel, loopLabel)

\* first traversal (lines 323-338): whether it goes below n
LoopDescend(loop, n) ==
  CASE Kind(n) \in {"ForStmt", "RangeStmt"} -> loop = n
    [] Kind(n) \in {"SwitchStmt", "SelectStmt"} -> FALSE
    [] OTHER -> TRUE
\* second traversal (lines 341-351): whether it goes below n
LoopDescendContinue(loop, n) ==
  CASE Kind(n) \in {"ForStmt", "RangeStmt"} -> loop = n
    [] OTHER -> TRUE
\* the branch statements the first traversal adds (line 334)
LoopBranch(info, b, loopLabel) ==
  LabelOf(b) = 0 \/ Lookup(info.Uses, LabelOf(b)) = Lookup(info.Defs, loopLabel)
\* the branch statements the third traversal adds (line 365)
\* (variant: the third traversal adds nothing)
LoopLabeledBranchNone(info, b, loopLabel) == FALSE
LoopLabeledBranch(info, b, loopLabel) ==
  LabelOf(b) # 0 /\ Lookup(info.Uses, LabelOf(b)) = Lookup(info.Defs, loopLabel)

\* rng of the loop's keyword (lines 316-319)
LoopKeyword(loop) == <<Pos(loop), Pos(loop) + LenFor>>

\* lines 311-369, for the loop and label the walk ended with
LoopFlow(loop, loopLabel, info, result) ==
  LET D1 == {n \in Subtree(loop) : ~LoopDescend(loop, n)}
      D2 == {n \in Subtree(loop) : ~LoopDescendContinue(loop, n)}
      pass1 == {Rng(b) : b \in {n \in Inspect(loop, D1) :
                  Kind(n) = "BranchStmt" /\ LoopBranch(info, n, loopLabel)}}
      pass2 == {Rng(b) : b \in {n \in Inspect(loop, D2) :
                  Kind(n) = "BranchStmt" /\ tree[n].Tok = "continue"}}
      pass3 == {Rng(b) : b \in {n \in Subtree(loop) :
                  Kind(n) = "BranchStmt" /\ LoopLabeledBranch(info, n, loopLabel)}}
  IN  IF loop = 0 THEN result
      ELSE IF loopLabel = 0 THEN result \cup {LoopKeyword(loop)} \cup pass1 \cup pass2
      ELSE result \cup {LoopKeyword(loop)} \cup pass1 \cup pass2 \cup pass3

LoopFlowOf(w, info, result) == LoopFlow(w.loop, w.loopLabel, info, result)
gopHighlightLoopControlFlow(path, info, result) ==
  LoopFlowOf(LoopWalk(path, 1, gopLabelFor(path), 0), info, result)

(***************************************************************************)
(* gopHighlightSwitchFlow                                                  *)
(***************************************************************************)
RECURSIVE SwitchWalk(_, _, _, _)
SwitchWalk(path, i, stmtLabel, switchNodeLabel) ==
  IF i > Len(path) THEN [switchNode |-> 0, switchNodeLabel |-> switchNodeLabel]
  ELSE IF Kind(path[i]) = "SwitchStmt"
       THEN LET l == gopLabelFor(SubSeq(path, i, Len(path)))
            IN  IF stmtLabel = 0 \/ l = stmtLabel
                THEN [switchNode |-> path[i], switchNodeLabel |-> l]
                ELSE SwitchWalk(path, i + 1, stmtLabel, l)
       ELSE SwitchWalk(path, i + 1, stmtLabel, switchNodeLabel)

\* first traversal (lines 401-418): whether it goes below n
SwitchDescend(switchNode, n) ==
  CASE Kind(n) = "SwitchStmt" -> switchNode = n
    [] Kind(n) \in {"ForStmt", "RangeStmt", "SelectStmt"} -> FALSE
    [] OTHER -> TRUE

SwitchKeyword(switchNode) == <<Pos(switchNode), Pos(switchNode) + LenSwitch>>

\* the labeled-or-not condition on a break (lines 413-414, 432-433)
SwitchBranch(info, b, switchNodeLabel) ==
  Lookup(info.Uses, LabelOf(b)) = Lookup(info.Defs, switchNodeLabel)

\* lines 388-437, for the switch and label the walk ended with
SwitchFlow(switchNode, switchNodeLabel, info, result) ==
  LET D1 == {n \in Subtree(switchNode) : ~SwitchDescend(switchNode, n)}
      pass1 == {Rng(b) : b \in {n \in Inspect(switchNode, D1) :
                  /\ Kind(n) = "BranchStmt" /\ tree[n].Tok = "break"
                  /\ (LabelOf(n) = 0 \/ SwitchBranch(info, n, switchNodeLabel))}}
      pass2 == {Rng(b) : b \in {n \in Subtree(switchNode) :
                  /\ Kind(n) = "BranchStmt" /\ tree[n].Tok = "break"
                  /\ LabelOf(n) # 0
                  /\ SwitchBranch(info, n, switchNodeLabel)}}
  IN  IF switchNode = 0 THEN result
      ELSE IF switchNodeLabel = 0 THEN result \cup {SwitchKeyword(switchNode)} \cup pass1
      ELSE result \cup {SwitchKeyword(switchNode)} \cup pass1 \cup pass2

SwitchFlowOf(w, info, result) == SwitchFlow(w.switchNode, w.switchNodeLabel, info, result)
gopHighlightSwitchFlow(path, info, result) ==
  SwitchFlowOf(SwitchWalk(path, 1, gopLabelFor(path), 0), info, result)

(***************************************************************************)
(* gopHighlightUnlabeledBreakFlow: the innermost enclosing loop, switch or *)
(* select decides.                                                         *)
(***************************************************************************)
\* the first index of path holding a node of one of the kinds, or 0
FirstOfKind(path, kinds) ==
  LET I == {i \in DOMAIN path : Kind(path[i]) \in kinds}
  IN  IF I = {} THEN 0 ELSE CHOOSE i \in I : \A j \in I : i <= j

gopHighlightUnlabeledBreakFlow(path, info, result) ==
  LET i == FirstOfKind(path, {"ForStmt", "RangeStmt", "SwitchStmt", "SelectStmt"})
  IN  IF i = 0 THEN result
      ELSE IF Kind(path[i]) \in {"ForStmt", "RangeStmt"}
           THEN gopHighlightLoopControlFlow(path, info, result)
      ELSE IF Kind(path[i]) = "SwitchStmt" THEN gopHighlightSwitchFlow(path, info, result)
      ELSE result

(***************************************************************************)
(* gopHighlightLabeledFlow: the enclosing labeled loop or switch that the  *)
(* label of a break or continue denotes.                                   *)
(***************************************************************************)
gopHighlightLabeledFlow(path, info, stmt, result) ==
  LET use == Lookup(info.Uses, LabelOf(stmt))
      I == {i \in DOMAIN path : /\ Kind(path[i]) = "LabeledStmt"
                                /\ Lookup(info.Defs, One(path[i], "Label")) = use}
      label == path[CHOOSE i \in I : \A j \in I : i <= j]
      target == One(label, "Stmt")
  IN  IF use = Nil THEN result
      ELSE IF I = {} THEN result
      ELSE IF Kind(target) \in {"ForStmt", "RangeStmt"}
           THEN gopHighlightLoopControlFlow(<<target, label>>, info, result)
      ELSE IF Kind(target) = "SwitchStmt"
           THEN gopHighlightSwitchFlow(<<target, label>>, info, result)
      ELSE result

(***************************************************************************)
(* gopHighlightIdentifier                                                  *)
(***************************************************************************)
\* the identifiers the traversal highlights (line 453)
\* (variants: the name alone, the object alone)
IdentMatchByName(info, n, id) == tree[n].Name = tree[id].Name
IdentMatchByObject(info, n, id) == ObjectOf(info, n) = ObjectOf(info, id)
IdentMatch(info, n, id) ==
  tree[n].Name = tree[id].Name /\ ObjectOf(info, n) = ObjectOf(info, id)

gopHighlightIdentifier(id, file, info, result) ==
  LET obj == ObjectOf(info, id)
      seen == Subtree(file)
      idents == {Rng(n) : n \in {x \in seen : Kind(x) = "Ident" /\ IdentMatch(info, x, id)}}
      specs == {n \in seen : /\ Kind(n) = "ImportSpec"
                             /\ GopImportedPkgName(info, n).ok
                             /\ GopImportedPkgName(info, n).pkgname = obj}
      imports == {Rng(IF One(n, "Name") # 0 THEN One(n, "Name") ELSE n) : n \in specs}
  IN  result \cup idents \cup imports

(***************************************************************************)
(* gopHighlightPath: dispatch on the innermost node.  The Go function      *)
(* returns (map, error); the error is nil on every path.                   *)
(***************************************************************************)
\* the kinds of node the switch has a case for (line 73)
Dispatched == {"BasicLit", "ReturnStmt", "FuncDecl", "FuncType", "Ident", "ForStmt",
               "RangeStmt", "SwitchStmt", "BranchStmt"}
\* the default case (lines 128-130): return nil, nil
\* (variant: an error instead)
UnidentifiedAreaIsError == [result |-> {}, err |-> "no highlight for this node"]
UnidentifiedArea == [result |-> {}, err |-> "nil"]

gopHighlightPath(path, file, info) ==
  LET node == path[1]
      k == Kind(node)
      isImport == k = "BasicLit" /\ Len(path) > 1 /\ Kind(path[2]) = "ImportSpec"
      imp == path[2]
      refs == IF GopImportedPkgName(info, imp).ok
              THEN {Rng(n) : n \in {x \in Subtree(file) :
                      /\ Kind(x) = "Ident"
                      /\ Lookup(info.Uses, x) = GopImportedPkgName(info, imp).pkgname}}
              ELSE {}
      result ==
        CASE isImport -> {Rng(imp)} \cup refs
          [] k = "BasicLit" /\ ~isImport -> gopHighlightFuncControlFlow(path, {})
          [] k \in {"ReturnStmt", "FuncDecl", "FuncType"} -> gopHighlightFuncControlFlow(path, {})
          [] k = "Ident" ->
               gopHighlightIdentifier(node, file, info, gopHighlightFuncControlFlow(path, {}))
          [] k \in {"ForStmt", "RangeStmt"} -> gopHighlightLoopControlFlow(path, info, {})
          [] k = "SwitchStmt" -> gopHighlightSwitchFlow(path, info, {})
          [] k = "BranchStmt" /\ tree[node].Tok = "break" ->
               IF LabelOf(node) # 0 THEN gopHighlightLabeledFlow(path, info, node, {})
               ELSE gopHighlightUnlabeledBreakFlow(path, info, {})
          [] k = "BranchStmt" /\ tree[node].Tok = "continue" ->
               IF LabelOf(node) # 0 THEN gopHighlightLabeledFlow(path, info, node, {})
               ELSE gopHighlightLoopControlFlow(path, info, {})
          [] OTHER -> {}
  IN  IF k \in Dispatched THEN [result |-> result, err |-> "nil"] ELSE UnidentifiedArea

(***************************************************************************)
(* GopHighlight                                                            *)
(***************************************************************************)
\* pgf.PositionPos(position): fails for an offset outside the file
PositionPosFails(p) == p < 0 \/ p > size
\* pgf.PosRange(start, end): fails for a range that is not inside the file
PosRangeFails(rng) == ~(0 <= rng[1] /\ rng[1] <= rng[2] /\ rng[2] <= size)

\* The path GopHighlight hands to gopHighlightPath (lines 37, 44-55): the path
\* at pos, or the path at pos-1 when that one ends in an identifier or selector
\* and the one at pos does not end in an identifier.
\* (variant: no look at pos-1)
PathAtPosOnly(file, pos) == PathEnclosingInterval(file, pos)
PathForHighlight(file, pos) ==
  LET path == PathEnclosingInterval(file, pos)
      p == PathEnclosingInterval(file, pos - 1)
  IN  IF /\ Len(path) > 0 /\ Kind(path[1]) # "Ident"
         /\ p # <<>> /\ Kind(p[1]) \in {"Ident", "SelectorExpr"}
      THEN p ELSE path

\* lines 56-68: the error of gopHighlightPath, else every range through PosRange
Converted(r) ==
  IF r.err # "nil" THEN [ranges |-> {}, err |-> r.err]
  ELSE IF \E rng \in r.result : PosRangeFails(rng)
       THEN [ranges |-> {}, err |-> "invalid range"]
  ELSE [ranges |-> r.result, err |-> "nil"]

\* what GopHighlight returns for an offset: (ranges, err)
Highlight(p) ==
  IF PositionPosFails(p) THEN [ranges |-> {}, err |-> "position out of range"]
  ELSE IF Len(PathEnclosingInterval(1, p)) = 0
       THEN [ranges |-> {}, err |-> "no enclosing position found"]
  ELSE Converted(gopHighlightPath(PathForHighlight(1, p), 1, typesInfo))

(***************************************************************************)
(* The files of the model.                                                 *)
(***************************************************************************)
\* label names by nesting depth
LabelName == <<"L1", "L2", "L3", "L4">>
Wrappers == {"for", "Lfor", "switch", "Lswitch"}
Labeled(w) == w \in {"Lfor", "Lswitch"}
Chains == UNION {[1..d -> Wrappers] : d \in 1..MaxNest}

\* the leaf statement of a nest: <<tok, target>>, target the depth of the
\* construct whose label the branch names (0: no label; -1: the branch is itself
\* a labeled statement `S: tok`)
Leaves(chain) ==
  ({"break", "continue"} \X (-1..Len(chain)))
  \cup ({"goto"} \X (1..Len(chain))) \cup {<<"fallthrough", 0>>}

LeafStmt(chain, leaf) ==
  LET tok == leaf[1]
      t == leaf[2]
  IN  IF t = 0 THEN BranchStmt(tok)
      ELSE IF t = -1 THEN LabeledStmt(IdentDef("S", Obj(9, "Label")), BranchStmt(tok))
      ELSE IF Labeled(chain[t]) THEN BranchStmtL(tok, IdentUse(LabelName[t], Obj(t, "Label")))
      ELSE BranchStmtL(tok, Ident(LabelName[t]))

RECURSIVE Nest(_, _, _)
Nest(chain, d, leaf) ==
  IF d > Len(chain) THEN LeafStmt(chain, leaf)
  ELSE LET in == Nest(chain, d + 1, leaf)
           lab == IdentDef(LabelName[d], Obj(d, "Label"))
       IN  CASE chain[d] = "for" -> ForStmt(BlockStmt(<<in>>))
             [] chain[d] = "Lfor" -> LabeledStmt(lab, ForStmt(BlockStmt(<<in>>)))
             [] chain[d] = "switch" -> SwitchStmt(<<CaseClause(Ident("c"), <<in>>)>>)
             [] chain[d] = "Lswitch" ->
                  LabeledStmt(lab, SwitchStmt(<<CaseClause(Ident("c"), <<in>>)>>))

NestFile(chain, leaf) ==
  File(<<FuncDecl(IdentDef("f", Obj(100, "Func")), <<>>, BlockStmt(<<Nest(chain, 1, leaf)>>))>>)
NestFiles == UNION {{NestFile(ch, lf) : lf \in Leaves(ch)} : ch \in Chains}

\* objects of the hand-written files
TInt == IdentUse("int", Obj(50, "TypeName"))
TError == IdentUse("error", Obj(51, "TypeName"))
VarC == IdentUse("c", Obj(52, "Var"))

\* func f() int { if c { return 1 }; return 2 }
FileReturns ==
  File(<<FuncDecl(IdentDef("f", Obj(100, "Func")), <<FieldList(<<Field(<<>>, TInt)>>, FALSE)>>,
     BlockStmt(<<IfStmt(VarC, BlockStmt(<<ReturnStmt(<<BasicLit("1")>>)>>)),
                 ReturnStmt(<<BasicLit("2")>>)>>))>>)

\* func g() (r int, e error) { v := func() int { return 3 }; if c { return h(1), e };
\*                             return 4, x; return }
FileNamedResults ==
  File(<<FuncDecl(IdentDef("g", Obj(101, "Func")),
     <<FieldList(<<Field(<<IdentDef("r", Obj(53, "Var"))>>, TInt),
                   Field(<<IdentDef("e", Obj(54, "Var"))>>, TError)>>, TRUE)>>,
     BlockStmt(<<
       AssignStmt(IdentDef("v", Obj(55, "Var")), ":=",
          FuncLit(<<FieldList(<<Field(<<>>, TInt)>>, FALSE)>>,
                  BlockStmt(<<ReturnStmt(<<BasicLit("3")>>)>>))),
       IfStmt(VarC, BlockStmt(<<ReturnStmt(<<
          CallExpr(IdentUse("h", Obj(102, "Func")), <<BasicLit("1")>>),
          IdentUse("e", Obj(54, "Var"))>>)>>)),
       ReturnStmt(<<BasicLit("4"), IdentUse("x", Obj(56, "Var"))>>),
       ReturnStmt(<<>>)>>))>>)

\* func m() int { x := 1; y := x; return x }
FileIdents ==
  File(<<FuncDecl(IdentDef("m", Obj(103, "Func")), <<FieldList(<<Field(<<>>, TInt)>>, FALSE)>>,
     BlockStmt(<<AssignStmt(IdentDef("x", Obj(57, "Var")), ":=", BasicLit("1")),
                 AssignStmt(IdentDef("y", Obj(58, "Var")), ":=", IdentUse("x", Obj(57, "Var"))),
                 ReturnStmt(<<IdentUse("x", Obj(57, "Var"))>>)>>))>>)

\* func a() { echo(x); println(x); func() { x := x }() }
\* echo and println are two names of one function; the inner x shadows the outer
FileAlias ==
  File(<<FuncDecl(IdentDef("a", Obj(104, "Func")), <<>>,
     BlockStmt(<<
       ExprStmt(CallExpr(IdentUse("echo", Obj(60, "Func")), <<IdentUse("x", Obj(61, "Var"))>>)),
       ExprStmt(CallExpr(IdentUse("println", Obj(60, "Func")), <<IdentUse("x", Obj(61, "Var"))>>)),
       ExprStmt(CallExpr(FuncLit(<<>>, BlockStmt(<<
          AssignStmt(IdentDef("x", Obj(62, "Var")), ":=", IdentUse("x", Obj(61, "Var")))>>)),
          <<>>))>>))>>)

\* import "fmt" / import z "os" / func p() { fmt.Println(z.Args) }
FileImports ==
  File(<<ImportDecl(ImportSpec("\"fmt\"", Obj(70, "PkgName"))),
         ImportDecl(ImportSpecNamed(IdentDef("z", Obj(71, "PkgName")), "\"os\"")),
         FuncDecl(IdentDef("p", Obj(105, "Func")), <<>>,
           BlockStmt(<<ExprStmt(CallExpr(
              SelectorExpr(IdentUse("fmt", Obj(70, "PkgName")), IdentUse("Println", Obj(72, "Func"))),
              <<SelectorExpr(IdentUse("z", Obj(71, "PkgName")), IdentUse("Args", Obj(73, "Var")))>>))>>))>>)

\* func u() int { q = q + w; if q { return w }; return q } / var t = w
\* nothing resolves except the type
FileUnresolved ==
  File(<<FuncDecl(Ident("u"), <<FieldList(<<Field(<<>>, TInt)>>, FALSE)>>,
           BlockStmt(<<AssignStmt(Ident("q"), "=", BinaryExpr(Ident("q"), "+", Ident("w"))),
                       IfStmt(Ident("q"), BlockStmt(<<ReturnStmt(<<Ident("w")>>)>>)),
                       ReturnStmt(<<Ident("q")>>)>>)),
         VarDecl(IdentDef("t", Obj(63, "Var")), Ident("w"))>>)

\* func k() T { return T{k: 1} }
FileKeyValue ==
  File(<<FuncDecl(IdentDef("k", Obj(106, "Func")),
           <<FieldList(<<Field(<<>>, IdentUse("T", Obj(64, "TypeName")))>>, FALSE)>>,
           BlockStmt(<<ReturnStmt(<<CompositeLit(IdentUse("T", Obj(64, "TypeName")),
              <<KeyValueExpr(IdentUse("k", Obj(65, "Var")), BasicLit("1"))>>)>>)>>))>>)

\* func s() { L: for range xs { if c { break }; switch { case c: break; fallthrough;
\*            case d: continue L }; for { break L; continue; break M }; goto L } }
FileLoop ==
  LET L == IdentUse("L", Obj(80, "Label")) IN
  File(<<FuncDecl(IdentDef("s", Obj(107, "Func")), <<>>, BlockStmt(<<
     LabeledStmt(IdentDef("L", Obj(80, "Label")),
       RangeStmt(IdentUse("xs", Obj(66, "Var")), BlockStmt(<<
         IfStmt(VarC, BlockStmt(<<BranchStmt("break")>>)),
         SwitchStmt(<<CaseClause(VarC, <<BranchStmt("break"), BranchStmt("fallthrough")>>),
                      CaseClause(IdentUse("d", Obj(67, "Var")), <<BranchStmtL("continue", L)>>)>>),
         ForStmt(BlockStmt(<<BranchStmtL("break", L), BranchStmt("continue"),
                             BranchStmtL("break", Ident("M"))>>)),
         BranchStmtL("goto", L)>>)))>>))>>)

\* func w() { S: switch { case c: for { break S; break }; break; select { default: break } } }
FileSwitch ==
  LET S == IdentUse("S", Obj(81, "Label")) IN
  File(<<FuncDecl(IdentDef("w", Obj(108, "Func")), <<>>, BlockStmt(<<
     LabeledStmt(IdentDef("S", Obj(81, "Label")),
       SwitchStmt(<<CaseClause(VarC, <<
         ForStmt(BlockStmt(<<BranchStmtL("break", S), BranchStmt("break")>>)),
         BranchStmt("break"),
         SelectStmt(<<CommClause(<<BranchStmt("break")>>)>>)>>)>>))>>))>>)

\* func v() { for { select { default: break; continue; break L1 }; L1: continue } }
FileSelect ==
  File(<<FuncDecl(IdentDef("v", Obj(109, "Func")), <<>>, BlockStmt(<<
     ForStmt(BlockStmt(<<
       SelectStmt(<<CommClause(<<BranchStmt("break"), BranchStmt("continue"),
                                 BranchStmtL("break", Ident("L1"))>>)>>),
       LabeledStmt(IdentDef("L1", Obj(82, "Label")), BranchStmt("continue"))>>))>>))>>)

\* var n = 1 / func b() { break; continue; goto X; return }
FileBare ==
  File(<<VarDecl(IdentDef("n", Obj(68, "Var")), BasicLit("1")),
         FuncDecl(IdentDef("b", Obj(110, "Func")), <<>>, BlockStmt(<<
           BranchStmt("break"), BranchStmt("continue"), BranchStmtL("goto", Ident("X")),
           ReturnStmt(<<>>)>>))>>)

HandFiles == {FileBare, FileSelect, FileReturns, FileNamedResults, FileIdents, FileAlias, FileImports,
              FileUnresolved, FileKeyValue, FileLoop, FileSwitch}

Corpus == NestFiles \cup HandFiles

(***************************************************************************)
(* Parsing and type checking a file.                                       *)
(***************************************************************************)
\* the syntax tree of a term: its nodes, without the checker's annotations
ParseFile(t) ==
  LET laid == LayNode(t, 0, 1, <<>>, "", 0)
  IN  [n \in DOMAIN laid |->
         [kind |-> laid[n].kind, Name |-> laid[n].Name, Tok |-> laid[n].Tok,
          pos |-> laid[n].pos, end |-> laid[n].end, up |-> laid[n].up,
          last |-> laid[n].last, role |-> laid[n].role, idx |-> laid[n].idx]]

\* the tables of types.Info; with SkipObjectResolution no table has an entry
TypesInfo(t, resolve) ==
  LET laid == LayNode(t, 0, 1, <<>>, "", 0)
      Table(name) == [n \in {i \in DOMAIN laid : resolve /\ laid[i].tbl = name} |-> laid[n].obj]
  IN  [Defs |-> Table("Defs"), Uses |-> Table("Uses"), Implicits |-> Table("Implicits")]

(***************************************************************************)
(* The state machine: one request against one snapshot of one file.        *)
(***************************************************************************)
\* Every file is checked; the hand-written ones are also served unresolved.
Inputs == (Corpus \X {TRUE}) \cup (HandFiles \X {FALSE})

Init ==
  \E in \in Inputs :
   LET t == in[1]
       resolve == in[2] IN
    /\ content = TextOf(t.parts, 1)
    /\ size = Len(TextOf(t.parts, 1))
    /\ tree = ParseFile(t)
    /\ typesInfo = TypesInfo(t, resolve)
    /\ position = -1
    /\ ranges = {}
    /\ err = "nil"
    /\ pc = "ready"

GopHighlight(p) ==
  /\ pc = "ready"
  /\ position' = p
  /\ \E h \in {Highlight(p)} : ranges' = h.ranges /\ err' = h.err
  /\ pc' = "done"
  /\ UNCHANGED <<content, size, tree, typesInfo>>

Next == \E p \in 0..(size + MaxPastEOF) : GopHighlight(p)

Spec == Init /\ [][Next]_vars

(***************************************************************************)
(* Vocabulary of the properties, read off the tree and the tables alone.   *)
(***************************************************************************)
Done == pc = "done"
OfKind(kinds) == {n \in Nodes : Kind(n) \in kinds}
Idents == OfKind({"Ident"})
\* the innermost node whose extent holds the unit at offset o (0: none but the file)
NodeAt(o) ==
  LET C == {n \in Nodes : Pos(n) <= o /\ o < End(n)}
  IN  IF C = {} THEN 0 ELSE CHOOSE n \in C : \A m \in C : m <= n
\* n followed by its ancestors
PathTo(n) == <<n>> \o tree[n].up
\* the nearest node of one of the kinds on the way from n to the root (0: none)
Nearest(n, kinds) ==
  IF FirstOfKind(PathTo(n), kinds) = 0 THEN 0 ELSE PathTo(n)[FirstOfKind(PathTo(n), kinds)]
FuncKinds == {"FuncDecl", "FuncLit"}
LoopKinds == {"ForStmt", "RangeStmt"}
\* the function a node belongs to
FuncOf(n) == Nearest(n, FuncKinds)
\* the return statements of function F, those of nested functions excluded
ReturnsOf(F) == {r \in OfKind({"ReturnStmt"}) : FuncOf(r) = F}
\* the result fields of F's signature
ResultFieldsOf(F) ==
  IF TypeResults(F) = 0 THEN <<>> ELSE FieldOf(TypeResults(F), "List")
\* the object a node resolves to
NodeObject(n) ==
  IF Kind(n) = "Ident" THEN ObjectOf(typesInfo, n) ELSE Lookup(typesInfo.Implicits, n)
\* the nodes between n (included) and its function (excluded)
InsideFunc(n) ==
  LET i == FirstOfKind(PathTo(n), FuncKinds)
  IN  {PathTo(n)[j] : j \in 1..((IF i = 0 THEN Len(PathTo(n)) + 1 ELSE i) - 1)}
\* the identifier the cursor is strictly inside of (0: none)
CursorIdent ==
  IF position >= 0 /\ NodeAt(position) # 0 /\ Kind(NodeAt(position)) = "Ident"
  THEN NodeAt(position) ELSE 0

CursorExitKeyword ==
  LET K == {n \in OfKind({"ReturnStmt"}) : Pos(n) <= position /\ position < Pos(n) + 6}
           \cup {n \in OfKind(FuncKinds) : Pos(n) <= position /\ position < Pos(n) + 4}
  IN  IF K = {} THEN 0 ELSE CHOOSE n \in K : TRUE

C2_ReturnKeywordExits ==
  (Done /\ CursorExitKeyword # 0 /\ FuncOf(CursorExitKeyword) # 0) =>
    LET F == FuncOf(CursorExitKeyword)
    IN  /\ err = "nil"
        /\ ranges = {<<Pos(F), Pos(F) + 4>>} \cup {Rng(r) : r \in ReturnsOf(F)}

\* the cursor is on a `return` of a function that has several return
\* statements and a nested function with a return statement of its own
C2_Witness ==
  /\ Done /\ CursorExitKeyword # 0 /\ Kind(CursorExitKeyword) = "ReturnStmt"
  /\ LET F == FuncOf(CursorExitKeyword)
     IN  /\ F # 0 /\ Cardinality(ReturnsOf(F)) >= 2
         /\ \E r \in OfKind({"ReturnStmt"}) : InSubtree(r, F) /\ FuncOf(r) # F
         /\ Cardinality(ranges) = 1 + Cardinality(ReturnsOf(F))

(***************************************************************************)
(* C3: a cursor on a literal that is the i-th result expression of a       *)
(* return statement of function F yields the i-th result expression of     *)
(* every return statement of F that has one and F's i-th result field if   *)
(* there is one, and nothing else: no whole return statement, no `func`    *)
(* span, at most one range per return statement.                           *)
(***************************************************************************)
\* the literal result expression the cursor is in (0: none)
CursorResultLit ==
  IF /\ position >= 0 /\ NodeAt(position) # 0 /\ Kind(NodeAt(position)) = "BasicLit"
     /\ tree[NodeAt(position)].role = "Results"
     /\ Kind(ParentOf(NodeAt(position))) = "ReturnStmt"
  THEN NodeAt(position) ELSE 0

C3_ResultExpressionOnly ==
  (Done /\ CursorResultLit # 0 /\ FuncOf(CursorResultLit) # 0) =>
    LET i == tree[CursorResultLit].idx
        F == FuncOf(CursorResultLit)
        exprs == {Rng(FieldOf(r, "Results")[i + 1]) :
                    r \in {x \in ReturnsOf(F) : Len(FieldOf(x, "Results")) > i}}
        field == IF i < Len(ResultFieldsOf(F)) THEN {Rng(ResultFieldsOf(F)[i + 1])} ELSE {}
    IN  /\ err = "nil"
        /\ ranges = exprs \cup field
        /\ <<Pos(F), Pos(F) + 4>> \notin ranges
        /\ \A r \in ReturnsOf(F) :
             /\ Rng(r) \notin ranges
             /\ Cardinality({g \in ranges : Pos(r) <= g[1] /\ g[2] <= End(r)}) <= 1

\* the cursor is on a literal result; another return statement of the function
\* has a result at that index, one has none, and the signature has the field
C3_Witness ==
  /\ Done /\ CursorResultLit # 0 /\ FuncOf(CursorResultLit) # 0
  /\ LET i == tree[CursorResultLit].idx
         F == FuncOf(CursorResultLit)
     IN  /\ \E r \in ReturnsOf(F) : Len(FieldOf(r, "Results")) <= i
         /\ \E r \in ReturnsOf(F) \ {ParentOf(CursorResultLit)} :
              Len(FieldOf(r, "Results")) > i /\ Rng(FieldOf(r, "Results")[i + 1]) \in ranges
         /\ i < Len(ResultFieldsOf(F)) /\ Rng(ResultFieldsOf(F)[i + 1]) \in ranges

(***************************************************************************)
(* Vocabulary of the loop and switch properties.                           *)
(***************************************************************************)
Loops == OfKind(LoopKinds)
Switches == OfKind({"SwitchStmt"})
Branches == OfKind({"BranchStmt"})
\* the span of the keyword a loop or switch starts with
KeywordSpan(c) ==
  IF Kind(c) = "SwitchStmt" THEN <<Pos(c), Pos(c) + 6>> ELSE <<Pos(c), Pos(c) + 3>>
\* the branch statement the cursor is on: on its keyword, not in its label (0: none)
CursorBranch ==
  IF position >= 0 /\ NodeAt(position) # 0 /\ Kind(NodeAt(position)) = "BranchStmt"
  THEN NodeAt(position) ELSE 0
\* the label identifier of the labeled statement whose body c is (0: none)
LabelOn(c) ==
  IF ParentOf(c) # 0 /\ Kind(ParentOf(c)) = "LabeledStmt" /\ tree[c].role = "Stmt"
  THEN One(ParentOf(c), "Label") ELSE 0
\* the binding of a label identifier (Nil: unresolved, or no label)
UseOf(l) == Lookup(typesInfo.Uses, l)
DefOf(l) == Lookup(typesInfo.Defs, l)

(***************************************************************************)
(* C4 (as stated): a cursor on an unlabeled `break` whose nearest          *)
(* enclosing loop, switch or select is a loop or switch C yields a result  *)
(* that holds C's keyword span and the `break` and the keyword span of no  *)
(* other loop or switch.                                                   *)
(***************************************************************************)
C4_AsStated ==
  (/\ Done /\ CursorBranch # 0 /\ tree[CursorBranch].Tok = "break" /\ LabelOf(CursorBranch) = 0
   /\ Nearest(CursorBranch, LoopKinds \cup {"SwitchStmt", "SelectStmt"}) # 0
   /\ Kind(Nearest(CursorBranch, LoopKinds \cup {"SwitchStmt", "SelectStmt"})) # "SelectStmt")
  => LET C == Nearest(CursorBranch, LoopKinds \cup {"SwitchStmt", "SelectStmt"})
     IN  /\ KeywordSpan(C) \in ranges
         /\ Rng(CursorBranch) \in ranges
         /\ \A Y \in (Loops \cup Switches) \ {C} : KeywordSpan(Y) \notin ranges

(***************************************************************************)
(* C5: a cursor on `break L` or `continue L`, L bound to the label of an   *)
(* enclosing loop X, yields a result that holds X's `for` span and the     *)
(* branch statement, whatever lies between them, and the keyword span of   *)
(* no other loop or switch.                                                *)
(***************************************************************************)
\* the enclosing loop the label of the branch statement under the cursor is
\* bound to (0: none)
CursorLabeledTarget ==
  LET b == CursorBranch
      X == {x \in Loops : /\ InSubtree(b, x) /\ LabelOn(x) # 0
                          /\ DefOf(LabelOn(x)) = UseOf(LabelOf(b))}
  IN  IF /\ b # 0 /\ tree[b].Tok \in {"break", "continue"} /\ LabelOf(b) # 0
         /\ UseOf(LabelOf(b)) # Nil /\ X # {}
      THEN CHOOSE x \in X : TRUE ELSE 0

C5_LabeledBranchReachesLoop ==
  (Done /\ CursorLabeledTarget # 0) =>
    /\ err = "nil"
    /\ KeywordSpan(CursorLabeledTarget) \in ranges
    /\ Rng(CursorBranch) \in ranges
    /\ \A Y \in (Loops \cup Switches) \ {CursorLabeledTarget} : KeywordSpan(Y) \notin ranges

\* a loop or a switch lies between the branch statement and the loop it names
C5_Witness ==
  /\ Done /\ CursorLabeledTarget # 0
  /\ \E Y \in (Loops \cup Switches) \ {CursorLabeledTarget} :
       InSubtree(Y, CursorLabeledTarget) /\ InSubtree(CursorBranch, Y)
  /\ Rng(CursorBranch) \in ranges

(***************************************************************************)
(* C6: for an identifier token occupying [s, e), the request at offset e   *)
(* returns what the request at any offset o with s <= o < e returns.       *)
(***************************************************************************)
\* the identifier that ends exactly at the cursor (0: none)
IdentEndingAtCursor ==
  LET E == {n \in Idents : End(n) = position}
  IN  IF E = {} THEN 0 ELSE CHOOSE n \in E : TRUE

C6_TokenBoundary ==
  (Done /\ IdentEndingAtCursor # 0) =>
    \A o \in Pos(IdentEndingAtCursor)..(End(IdentEndingAtCursor) - 1) :
      /\ err = Highlight(o).err
      /\ ranges = Highlight(o).ranges

\* the cursor is directly after an identifier, on a unit of another node, and
\* the occurrences of the identifier are returned
C6_Witness ==
  /\ Done /\ IdentEndingAtCursor # 0
  /\ NodeAt(position) # 0 /\ Kind(NodeAt(position)) \notin {"Ident", "File"}
  /\ Rng(IdentEndingAtCursor) \in ranges
  /\ Cardinality(ranges) >= 2

(***************************************************************************)
(* C7: the request fails exactly when the offset is outside the file; for  *)
(* every offset inside it the request succeeds, and where highlighting     *)
(* does not apply (a node kind without a case, goto and fallthrough, a     *)
(* break that leaves a select, a cursor outside any function, loop or      *)
(* switch) the result is the empty set.                                    *)
(***************************************************************************)
\* the node the request dispatches on: the identifier ending at the cursor if
\* the cursor is in no identifier, else the innermost node (0: the file alone)
CursorNode ==
  IF CursorIdent = 0 /\ IdentEndingAtCursor # 0 THEN IdentEndingAtCursor
  ELSE NodeAt(position)

NotApplicable ==
  LET n == CursorNode IN
    \/ n = 0
    \/ Kind(n) \notin {"BasicLit", "ReturnStmt", "FuncDecl", "FuncType", "Ident", "ForStmt",
                       "RangeStmt", "SwitchStmt", "BranchStmt"}
    \/ Kind(n) = "BranchStmt" /\ tree[n].Tok \in {"goto", "fallthrough"}
    \/ /\ Kind(n) = "BranchStmt" /\ tree[n].Tok = "break" /\ LabelOf(n) = 0
       /\ Nearest(n, LoopKinds \cup {"SwitchStmt", "SelectStmt"}) # 0
       /\ Kind(Nearest(n, LoopKinds \cup {"SwitchStmt", "SelectStmt"})) = "SelectStmt"
    \/ /\ Kind(n) = "BranchStmt" /\ LabelOf(n) = 0
       /\ Nearest(n, LoopKinds \cup {"SwitchStmt", "SelectStmt"}) = 0
    \/ Kind(n) \in {"BasicLit", "ReturnStmt"} /\ FuncOf(n) = 0 /\ Kind(ParentOf(n)) # "ImportSpec"

C7_ErrorOnlyOutsideFile ==
  Done =>
    /\ err # "nil" <=> (position < 0 \/ position > size)
    /\ err \in {"nil", "position out of range", "no enclosing position found"}
    /\ (err = "nil" /\ NotApplicable) => ranges = {}
    /\ \A g \in ranges : 0 <= g[1] /\ g[1] < g[2] /\ g[2] <= size

\* a cursor inside the file on a node kind the dispatch has no case for
C7_Witness ==
  /\ Done /\ position <= size /\ CursorNode # 0
  /\ Kind(CursorNode) \in {"BlockStmt", "IfStmt", "CaseClause", "SelectStmt", "LabeledStmt"}
  /\ err = "nil" /\ ranges = {}

(***************************************************************************)
(* C8: for a cursor identifier without binding, identifier highlighting    *)
(* yields the identifiers of the file that have its name and no binding,   *)
(* none of another name and none that resolves to an object; the request   *)
(* does not fail.                                                          *)
(***************************************************************************)
C8_UnboundIdentifiers ==
  (Done /\ CursorIdent # 0 /\ NodeObject(CursorIdent) = Nil) =>
    LET id == CursorIdent
        same == {Rng(n) : n \in {x \in Idents : /\ tree[x].Name = tree[id].Name
                                                /\ NodeObject(x) = Nil}}
        inExit == \E a \in InsideFunc(id) : Kind(a) \in {"ReturnStmt", "Field"}
    IN  /\ err = "nil"
        /\ gopHighlightIdentifier(id, 1, typesInfo, {}) = same
        /\ same \subseteq ranges
        /\ ~inExit => ranges = same

\* no table has an entry; another identifier of the same name is returned and
\* the file has an identifier of another name
C8_Witness ==
  /\ Done /\ CursorIdent # 0
  /\ DOMAIN typesInfo.Defs = {} /\ DOMAIN typesInfo.Uses = {} /\ DOMAIN typesInfo.Implicits = {}
  /\ \E n \in Idents \ {CursorIdent} :
       tree[n].Name = tree[CursorIdent].Name /\ Rng(n) \in ranges
  /\ \E n \in Idents : tree[n].Name # tree[CursorIdent].Name /\ Rng(n) \notin ranges

(***************************************************************************)
(* C9 (as stated): a branch statement whose label has no entry in Uses is  *)
(* in no result, with the cursor on it, on a loop or switch that encloses  *)
(* it, or on another branch statement of such a loop or switch; and the    *)
(* request does not fail.                                                  *)
(***************************************************************************)
C9_AsStated ==
  Done =>
    \A b \in Branches :
      (/\ LabelOf(b) # 0 /\ UseOf(LabelOf(b)) = Nil
       /\ CursorNode # 0
       /\ \/ CursorNode = b
          \/ CursorNode \in Loops \cup Switches /\ InSubtree(b, CursorNode)
          \/ /\ CursorNode \in Branches
             /\ \E c \in Loops \cup Switches : InSubtree(b, c) /\ InSubtree(CursorNode, c))
      => err = "nil" /\ Rng(b) \notin ranges

(***************************************************************************)
(* C10 (as stated): with the cursor on loop X, every branch statement in   *)
(* the result is a `break` or `continue` that has no label or a label      *)
(* bound as X's own label is.                                              *)
(***************************************************************************)
C10_AsStated ==
  (Done /\ CursorNode # 0 /\ CursorNode \in Loops) =>
    \A b \in Branches :
      Rng(b) \in ranges =>
        /\ tree[b].Tok \in {"break", "continue"}
        /\ LabelOf(b) = 0 \/ UseOf(LabelOf(b)) = DefOf(LabelOn(CursorNode))


(***************************************************************************)
(* C11 (as stated): with the cursor on a `continue` that carries a label,  *)
(* the result holds the keyword span of no switch statement, also when the *)
(* label is bound as the label of a switch statement is.                   *)
(***************************************************************************)
C11_AsStated ==
  (/\ Done /\ CursorBranch # 0
   /\ tree[CursorBranch].Tok = "continue" /\ LabelOf(CursorBranch) # 0)
  => \A S \in Switches : KeywordSpan(S) \notin ranges

\* the constructs an unlabeled break can leave
Breakables == LoopKinds \cup {"SwitchStmt", "SelectStmt"}
\* the switch statement S whose highlighting the request performs (0: none): the
\* cursor is on S, on an unlabeled break whose nearest breakable construct is S,
\* or on a break whose label is bound to the label of S, which encloses it
CursorSwitch ==
  LET b == CursorBranch
      X == {x \in Switches : /\ InSubtree(b, x) /\ LabelOn(x) # 0
                             /\ DefOf(LabelOn(x)) = UseOf(LabelOf(b))}
  IN  IF CursorNode # 0 /\ CursorNode \in Switches THEN CursorNode
      ELSE IF b = 0 \/ tree[b].Tok # "break" THEN 0
      ELSE IF LabelOf(b) = 0
           THEN (IF Nearest(b, Breakables) # 0 /\ Kind(Nearest(b, Breakables)) = "SwitchStmt"
                 THEN Nearest(b, Breakables) ELSE 0)
      ELSE IF UseOf(LabelOf(b)) # Nil /\ X # {} THEN CHOOSE x \in X : TRUE
      ELSE 0

(***************************************************************************)
(* C12 (as stated): in the highlighting of switch S every range of the     *)
(* result is S's 6-character keyword span or a `break` statement inside S  *)
(* that is unlabeled with S its nearest enclosing loop, switch or select,  *)
(* or whose label is bound to the object S's label defines; no `continue`  *)
(* is in the result.                                                       *)
(***************************************************************************)
C12_AsStated ==
  (Done /\ CursorSwitch # 0) =>
    \A r \in ranges :
      \/ r = <<Pos(CursorSwitch), Pos(CursorSwitch) + 6>>
      \/ \E b \in Branches :
           /\ r = Rng(b) /\ tree[b].Tok = "break" /\ InSubtree(b, CursorSwitch)
           /\ \/ LabelOf(b) = 0 /\ Nearest(b, Breakables) = CursorSwitch
              \/ /\ LabelOf(b) # 0 /\ UseOf(LabelOf(b)) # Nil
                 /\ LabelOn(CursorSwitch) # 0
                 /\ UseOf(LabelOf(b)) = DefOf(LabelOn(CursorSwitch))

\* the construct an unlabeled break or continue under the cursor leaves or
\* continues: the nearest loop for `continue`, the nearest loop or switch for
\* `break` (0: no such branch under the cursor, or a select comes first)
CursorUnlabeledTarget ==
  LET b == CursorBranch
      t == IF tree[b].Tok = "continue" THEN Nearest(b, LoopKinds) ELSE Nearest(b, Breakables)
  IN  IF b = 0 \/ tree[b].Tok \notin {"break", "continue"} \/ LabelOf(b) # 0 THEN 0
      ELSE IF t # 0 /\ Kind(t) # "SelectStmt" THEN t
      ELSE 0

(***************************************************************************)
(* C13 (as stated): with the cursor on an unlabeled `break` or `continue`  *)
(* that is the body of a labeled statement, the result holds the keyword   *)
(* span of the innermost enclosing loop (loop or switch for `break`) and   *)
(* the branch statement, as it does without the statement label.           *)
(***************************************************************************)
C13_AsStated ==
  (Done /\ CursorUnlabeledTarget # 0 /\ LabelOn(CursorBranch) # 0)
  => /\ KeywordSpan(CursorUnlabeledTarget) \in ranges
     /\ Rng(CursorBranch) \in ranges

=========================================================================
